---- MODULE Spec2Model ----
(***************************************************************************)
(* Two React components of the repository, each as a state machine:        *)
(*   - WalletPage (src/proplem3/revertCode.tsx): the balance list's        *)
(*     filter / sort / format / row pipeline and its useMemo caches;       *)
(*   - CurrencySwapForm (src/currency-swap/src/App.tsx): the swap form's   *)
(*     state, its exchange-rate effect, handleSwap and its timer.          *)
(* WalletSpec runs the first, SwapSpec and SwapFairSpec the second.        *)
(***************************************************************************)
EXTENDS Integers, Sequences, FiniteSets, TLC

VARIABLES
    \* ---- WalletPage ----
    balances,           \* value of useWalletBalances(): sequence of WalletBalance
    balancesRef,        \* identity of that array (Object.is compares identities)
    prices,             \* value of usePrices(): currency -> price | Undefined
    sortedDeps,         \* dependency list stored by the first useMemo
    sortedBalances,     \* value cached by the first useMemo
    sortedRef,          \* identity of the cached sortedBalances array
    formattedDeps,      \* dependency list stored by the second useMemo
    formattedBalances,  \* value cached by the second useMemo
    rows,               \* props of the WalletRow elements of the last render
    ranSort,            \* the last render ran the filter/sort callback
    ranFormat,          \* the last render ran the format callback
    filterCalls,        \* getPriority calls made by the filter callback, last run
    sortCalls,          \* getPriority calls made by the sort comparator, last run
    renderCause,        \* what caused the last render
    \* ---- CurrencySwapForm ----
    fetchState,         \* "pending" | "done" | "failed": the mount effect's fetch
    tokens,
    fromToken,
    toToken,
    amount,
    exchangeRate,
    loading,
    error,
    result,
    timers              \* pending setTimeout callbacks, each with its closure

walletVars == <<balances, balancesRef, prices, sortedDeps, sortedBalances, sortedRef,
                formattedDeps, formattedBalances, rows, ranSort, ranFormat,
                filterCalls, sortCalls, renderCause>>

swapVars == <<fetchState, tokens, fromToken, toToken, amount, exchangeRate, loading,
              error, result, timers>>

vars == <<walletVars, swapVars>>

\* JavaScript values of the type number | null | undefined: a number n is Num(n).
Num(n) == [num |-> n]
Undefined == [undefined |-> TRUE]
NaN == [nan |-> TRUE]
Null == [null |-> TRUE]
IsNum(v) == DOMAIN v = {"num"}

(***************************************************************************)
(* Bounds and input sets                                                   *)
(***************************************************************************)
\* Longest balances array handed to WalletPage.
MaxLen == 3

Bal(c, b, a) == [currency |-> c, blockchain |-> b, amount |-> a]

\* The balances the wallet store may hold: every chain getPriority names and one
\* it does not, amounts below, at and above zero, and two chains of equal
\* priority. An array may hold the same balance more than once.
WalletBalance ==
    {Bal("BTC", "Ethereum", 1500), Bal("ETH", "Unknown", 5), Bal("ETH", "Osmosis", 0),
     Bal("BTC", "Osmosis", 3), Bal("ETH", "Zilliqa", 4), Bal("BTC", "Neo", 4),
     Bal("ETH", "Arbitrum", 1), Bal("BTC", "Neo", -1)}

Currencies == {"BTC", "ETH"}
PriceValues == {Undefined, Num(3)}

RECURSIVE SeqsUpTo(_, _)
SeqsUpTo(S, n) ==
    IF n = 0 THEN {<<>>}
    ELSE LET shorter == SeqsUpTo(S, n - 1)
         IN  shorter \cup {Append(s, x) : s \in {t \in shorter : Len(t) = n - 1}, x \in S}

BalanceInputs == SeqsUpTo(WalletBalance, MaxLen)
PriceInputs == [Currencies -> PriceValues]

(***************************************************************************)
(* WalletPage: pure parts                                                  *)
(***************************************************************************)
Sentinel == -99

getPriority(blockchain) ==
    CASE blockchain = "Osmosis" -> 100
      [] blockchain = "Ethereum" -> 50
      [] blockchain = "Arbitrum" -> 30
      [] blockchain = "Zilliqa" -> 20
      [] blockchain = "Neo" -> 20
      [] OTHER -> -99

\* A filter callback that forgets the amount.
IsValidAnyAmount(balance) == getPriority(balance.blockchain) > -99

\* The filter callback.
IsValid(balance) ==
    LET balancePriority == getPriority(balance.blockchain)
    IN  balancePriority > -99 /\ balance.amount > 0

\* A filter that also drops a balance whose (currency, blockchain) pair came before.
validBalancesDeduplicated(bs) ==
    LET First(i) == \A j \in 1..(i - 1) :
                        bs[j].currency # bs[i].currency \/ bs[j].blockchain # bs[i].blockchain
        Keep == {i \in 1..Len(bs) : IsValid(bs[i]) /\ First(i)}
        Nth(k) == CHOOSE i \in Keep : Cardinality({j \in Keep : j < i}) = k - 1
    IN  [k \in 1..Cardinality(Keep) |-> bs[Nth(k)]]

validBalances(bs) == SelectSeq(bs, IsValid)

\* A comparator with the operands of the subtraction exchanged.
CompareAscending(lhs, rhs) == getPriority(lhs.blockchain) - getPriority(rhs.blockchain)

\* The sort comparator: negative or zero keeps lhs before rhs.
Compare(lhs, rhs) ==
    LET leftPriority == getPriority(lhs.blockchain)
        rightPriority == getPriority(rhs.blockchain)
    IN  rightPriority - leftPriority

\* Array.prototype.sort is stable (ECMAScript 2019): an element goes after every
\* element the comparator does not order behind it.
InsertStable(sorted, x) ==
    LET behind == {i \in 1..Len(sorted) : Compare(sorted[i], x) > 0}
        k == IF behind = {} THEN Len(sorted) + 1
             ELSE CHOOSE i \in behind : \A j \in behind : i <= j
    IN  SubSeq(sorted, 1, k - 1) \o <<x>> \o SubSeq(sorted, k, Len(sorted))

RECURSIVE Sort(_)
Sort(s) ==
    IF s = <<>> THEN <<>>
    ELSE InsertStable(Sort(SubSeq(s, 1, Len(s) - 1)), s[Len(s)])

FilterSort(bs) == Sort(validBalances(bs))

\* How many times sort may call the comparator on n elements: the algorithm is
\* the engine's choice, between a single pass and every pair.
ComparisonCounts(n) ==
    IF n < 2 THEN {0} ELSE (n - 1)..((n * (n - 1)) \div 2)

Digit(d) ==
    CASE d = 0 -> "0" [] d = 1 -> "1" [] d = 2 -> "2" [] d = 3 -> "3" [] d = 4 -> "4"
      [] d = 5 -> "5" [] d = 6 -> "6" [] d = 7 -> "7" [] d = 8 -> "8" [] d = 9 -> "9"

RECURSIVE Digits(_)
Digits(n) == IF n < 10 THEN Digit(n) ELSE Digits(n \div 10) \o Digit(n % 10)

ThreeDigits(n) == Digit(n \div 100) \o Digit((n \div 10) % 10) \o Digit(n % 10)

\* Number.prototype.toLocaleString() of an integer in the default en-US locale:
\* decimal digits grouped by thousands.
RECURSIVE toLocaleString(_)
toLocaleString(n) ==
    IF n < 0 THEN "-" \o toLocaleString(-n)
    ELSE IF n < 1000 THEN Digits(n)
    ELSE toLocaleString(n \div 1000) \o "," \o ThreeDigits(n % 1000)

\* The second useMemo callback.
Format(sb) ==
    [i \in 1..Len(sb) |->
        [currency |-> sb[i].currency, amount |-> sb[i].amount,
         blockchain |-> sb[i].blockchain, formatted |-> toLocaleString(sb[i].amount)]]

\* prices[currency] * amount: a missing entry reads undefined and the product is NaN.
Times(price, n) == IF IsNum(price) THEN Num(price.num * n) ELSE NaN

WalletRow(balance, pr) ==
    LET usdValue == Times(pr[balance.currency], balance.amount)
    IN  [key |-> balance.currency \o balance.blockchain,
         amount |-> balance.amount,
         usdValue |-> usdValue,
         formattedAmount |-> balance.formatted]

\* Rows built only for the balances whose currency has a price.
RowsPricedOnly(fb, pr) ==
    LET Priced(balance) == IsNum(pr[balance.currency])
        priced == SelectSeq(fb, Priced)
    IN  [i \in 1..Len(priced) |-> WalletRow(priced[i], pr)]

Rows(fb, pr) == [i \in 1..Len(fb) |-> WalletRow(fb[i], pr)]

\* The dependency list [balances, prices].
SortedDepsWithPrices(bref, pr) == <<bref, pr>>

\* The dependency lists of the two useMemo hooks.
SortedDeps(bref, pr) == <<bref>>

FormattedDeps(sref) == <<sref>>

(***************************************************************************)
(* WalletPage: renders                                                     *)
(***************************************************************************)
\* One render of WalletPage with the hook values b (identity bref) and pr.
Render(b, bref, pr) ==
    LET deps == SortedDeps(bref, pr)
        recompute == deps # sortedDeps
        sb == IF recompute THEN FilterSort(b) ELSE sortedBalances
        sref == IF recompute THEN 1 - sortedRef ELSE sortedRef
        fdeps == FormattedDeps(sref)
        reformat == fdeps # formattedDeps
        fb == IF reformat THEN Format(sb) ELSE formattedBalances
    IN  /\ sortedDeps' = deps
        /\ sortedBalances' = sb
        /\ sortedRef' = sref
        /\ formattedDeps' = fdeps
        /\ formattedBalances' = fb
        /\ rows' = Rows(fb, pr)
        /\ ranSort' = recompute
        /\ ranFormat' = reformat
        /\ filterCalls' = IF recompute THEN Len(b) ELSE filterCalls
        /\ IF recompute
           THEN \E c \in ComparisonCounts(Len(validBalances(b))) : sortCalls' = 2 * c
           ELSE sortCalls' = sortCalls

\* The wallet store hands out a new array: one more balance.
BalanceAdded ==
    /\ Len(balances) < MaxLen
    /\ \E x \in WalletBalance :
        /\ balances' = Append(balances, x)
        /\ balancesRef' = 1 - balancesRef
        /\ prices' = prices
        /\ Render(balances', balancesRef', prices')
    /\ renderCause' = "balances"
    /\ UNCHANGED swapVars

\* The wallet store hands out a new array with the same content.
BalancesRefetched ==
    /\ balances' = balances
    /\ balancesRef' = 1 - balancesRef
    /\ prices' = prices
    /\ Render(balances', balancesRef', prices')
    /\ renderCause' = "balances"
    /\ UNCHANGED swapVars

\* usePrices() returns other prices; the balances array is the same object.
PricesChanged ==
    /\ \E pr \in PriceInputs \ {prices} :
        /\ prices' = pr
        /\ UNCHANGED <<balances, balancesRef>>
        /\ Render(balances', balancesRef', prices')
    /\ renderCause' = "prices"
    /\ UNCHANGED swapVars

\* The parent re-renders WalletPage with neither hook value changed.
ParentRerender ==
    /\ UNCHANGED <<balances, balancesRef, prices>>
    /\ Render(balances', balancesRef', prices')
    /\ renderCause' = "parent"
    /\ UNCHANGED swapVars

(***************************************************************************)
(* CurrencySwapForm: input sets and pure parts                             *)
(***************************************************************************)
\* Longest price list the fetch may return.
MaxTokens == 2

Tok(c, p) == [currency |-> c, price |-> p]

\* The entries of the fetched JSON: null, or a token (its date is never read).
\* One currency is listed at two prices and one at the price 0.
PriceEntries == {Null, Tok("ETH", 2), Tok("ETH", 3), Tok("USD", 3), Tok("USD", 0)}

PriceData == SeqsUpTo(PriceEntries, MaxTokens)

\* What the amount field may hold, as sequences of characters.
AmountInputs == {<<>>, <<"a", "b", "c">>, <<"0">>, <<"-", "1">>, <<"2">>, <<"1", "0">>}

DigitValue(ch) ==
    CASE ch = "0" -> 0 [] ch = "1" -> 1 [] ch = "2" -> 2 [] ch = "3" -> 3 [] ch = "4" -> 4
      [] ch = "5" -> 5 [] ch = "6" -> 6 [] ch = "7" -> 7 [] ch = "8" -> 8 [] ch = "9" -> 9
      [] OTHER -> -1

RECURSIVE DecimalValue(_)
DecimalValue(s) ==
    IF Len(s) = 1 THEN DigitValue(s[1])
    ELSE 10 * DecimalValue(SubSeq(s, 1, Len(s) - 1)) + DigitValue(s[Len(s)])

AllDigits(s) == s # <<>> /\ \A i \in 1..Len(s) : DigitValue(s[i]) >= 0

\* Number(string) on an optional sign followed by decimal digits: the empty string
\* is 0, anything that is not a numeral is NaN.
Number(s) ==
    IF s = <<>> THEN Num(0)
    ELSE IF AllDigits(s) THEN Num(DecimalValue(s))
    ELSE IF s[1] = "-" /\ AllDigits(Tail(s)) THEN Num(-DecimalValue(Tail(s)))
    ELSE NaN

isNaN(v) == v = NaN

\* The fetched entries that are not null, in order.
validTokens(data) ==
    LET NotNull(value) == value # Null
    IN  SelectSeq(data, NotNull)

\* tokens.find((t) => t.currency === c)?.price
PriceOf(toks, c) ==
    LET hits == {i \in 1..Len(toks) : toks[i].currency = c}
    IN  IF hits = {} THEN Undefined
        ELSE Num(toks[CHOOSE i \in hits : \A j \in hits : i <= j].price)

Truthy(v) == IsNum(v) /\ v.num # 0

\* exchangeRate and result are numbers with six decimals, held as their count of
\* millionths: Num(1500000) is 1.5.
Million == 1000000

\* Number((fromPrice / toPrice).toFixed(6)): the quotient rounded to six decimals,
\* a tie going up.
ToFixed6(fromPrice, toPrice) == (2 * fromPrice * Million + toPrice) \div (2 * toPrice)

\* The body of the exchange-rate effect: the exchangeRate it leaves.
RateEffect(from, to, toks, current) ==
    IF from # "" /\ to # ""
    THEN LET fromPrice == PriceOf(toks, from)
             toPrice == PriceOf(toks, to)
         IN  IF Truthy(fromPrice) /\ Truthy(toPrice)
             THEN Num(ToFixed6(fromPrice.num, toPrice.num))
             ELSE Null
    ELSE current

\* The options of both selects.
Options == {""} \cup {tokens[i].currency : i \in 1..Len(tokens)}

InvalidInputsMessage == "Please provide valid inputs."

\* A guard that lets an amount of zero or less through.
InputsInvalidNoSign(from, to, amt) ==
    from = "" \/ to = "" \/ amt = <<>> \/ isNaN(Number(amt))

\* The guard of handleSwap.
InputsInvalid(from, to, amt) ==
    \/ from = ""
    \/ to = ""
    \/ amt = <<>>
    \/ isNaN(Number(amt))
    \/ Number(amt).num <= 0

\* disabled={loading}
ButtonDisabled == loading

\* A callback that reads the rate of the render in which it fires.
SwapResultCurrentRate(closure) ==
    Num(Number(closure.amount).num * (IF Truthy(exchangeRate) THEN exchangeRate.num ELSE 0))

\* const k = Number(amount) * (exchangeRate || 0), on the values the callback closed over.
SwapResult(closure) ==
    Num(Number(closure.amount).num
            * (IF Truthy(closure.exchangeRate) THEN closure.exchangeRate.num ELSE 0))

(***************************************************************************)
(* CurrencySwapForm: events                                                *)
(***************************************************************************)
\* The fetch of the mount effect resolves: setTokens, then the rate effect runs
\* because tokens changed.
FetchResolved ==
    /\ fetchState = "pending"
    /\ \E data \in PriceData :
        /\ tokens' = validTokens(data)
        /\ exchangeRate' = RateEffect(fromToken, toToken, tokens', exchangeRate)
    /\ fetchState' = "done"
    /\ UNCHANGED <<fromToken, toToken, amount, loading, error, result, timers>>
    /\ UNCHANGED walletVars

\* The fetch or the parsing of its body throws.
FetchFailed ==
    /\ fetchState = "pending"
    /\ fetchState' = "failed"
    /\ error' = "Failed to fetch token prices"
    /\ UNCHANGED <<tokens, fromToken, toToken, amount, exchangeRate, loading, result, timers>>
    /\ UNCHANGED walletVars

\* onChange of the From select, then the rate effect.
SelectFrom ==
    /\ \E v \in Options \ {fromToken} :
        /\ fromToken' = v
        /\ exchangeRate' = RateEffect(v, toToken, tokens, exchangeRate)
    /\ UNCHANGED <<fetchState, tokens, toToken, amount, loading, error, result, timers>>
    /\ UNCHANGED walletVars

\* onChange of the To select, then the rate effect.
SelectTo ==
    /\ \E v \in Options \ {toToken} :
        /\ toToken' = v
        /\ exchangeRate' = RateEffect(fromToken, v, tokens, exchangeRate)
    /\ UNCHANGED <<fetchState, tokens, fromToken, amount, loading, error, result, timers>>
    /\ UNCHANGED walletVars

\* onChange of the amount input.
ChangeAmount ==
    /\ \E s \in AmountInputs \ {amount} : amount' = s
    /\ UNCHANGED <<fetchState, tokens, fromToken, toToken, exchangeRate, loading, error,
                   result, timers>>
    /\ UNCHANGED walletVars

\* A click on the Swap button, which is disabled while loading: handleSwap.
ClickSwap ==
    /\ ~ButtonDisabled
    /\ IF InputsInvalid(fromToken, toToken, amount)
       THEN /\ error' = InvalidInputsMessage
            /\ UNCHANGED <<loading, timers>>
       ELSE /\ loading' = TRUE
            /\ timers' = Append(timers, [amount |-> amount, exchangeRate |-> exchangeRate])
            /\ UNCHANGED error
    /\ UNCHANGED <<fetchState, tokens, fromToken, toToken, amount, exchangeRate, result>>
    /\ UNCHANGED walletVars

\* The oldest pending setTimeout callback runs.
TimerFired ==
    /\ timers # <<>>
    /\ loading' = FALSE
    /\ result' = SwapResult(Head(timers))
    /\ amount' = <<>>
    /\ timers' = Tail(timers)
    /\ UNCHANGED <<fetchState, tokens, fromToken, toToken, exchangeRate, error>>
    /\ UNCHANGED walletVars

\* The first render: every useState at its initial value, the fetch in flight.
SwapInit ==
    /\ fetchState = "pending"
    /\ tokens = <<>>
    /\ fromToken = ""
    /\ toToken = ""
    /\ amount = <<>>
    /\ exchangeRate = Null
    /\ loading = FALSE
    /\ error = ""
    /\ result = Null
    /\ timers = <<>>

\* The state after the first render: both useMemo callbacks have run.
WalletInit ==
    /\ balances \in BalanceInputs
    /\ balancesRef = 0
    /\ prices \in PriceInputs
    /\ sortedDeps = SortedDeps(balancesRef, prices)
    /\ sortedBalances = FilterSort(balances)
    /\ sortedRef = 0
    /\ formattedDeps = FormattedDeps(sortedRef)
    /\ formattedBalances = Format(sortedBalances)
    /\ rows = Rows(formattedBalances, prices)
    /\ ranSort = TRUE
    /\ ranFormat = TRUE
    /\ filterCalls = Len(balances)
    /\ \E c \in ComparisonCounts(Len(validBalances(balances))) : sortCalls = 2 * c
    /\ renderCause = "mount"

Init == WalletInit /\ SwapInit

WalletNext ==
    \/ BalanceAdded
    \/ BalancesRefetched
    \/ PricesChanged
    \/ ParentRerender

WalletSpec == Init /\ [][WalletNext]_vars

SwapNext ==
    \/ FetchResolved
    \/ FetchFailed
    \/ SelectFrom
    \/ SelectTo
    \/ ChangeAmount
    \/ ClickSwap
    \/ TimerFired

\* The form alone: the wallet page stays at one first render.
SwapStart ==
    /\ WalletInit
    /\ balances = <<>>
    /\ \A c \in Currencies : prices[c] = Undefined
    /\ SwapInit

SwapSpec == SwapStart /\ [][SwapNext]_vars

\* The event loop runs every timer that is due.
SwapFairSpec == SwapSpec /\ WF_vars(TimerFired)

(***************************************************************************)
(* WalletPage: properties                                                  *)
(***************************************************************************)
\* The validity predicate, spelled out: a recognised chain and a positive amount.
Survives(b) == getPriority(b.blockchain) > Sentinel /\ b.amount > 0

\* Row i is the row of sortedBalances[i].
RowOf(i) ==
    /\ rows[i].key = sortedBalances[i].currency \o sortedBalances[i].blockchain
    /\ rows[i].amount = sortedBalances[i].amount

\* C1: every element of sortedBalances, and so every row, is an input record on a
\* recognised chain (priority above the sentinel -99) with an amount above zero;
\* when no input record is valid, or there is none, there is no row.
C1_OnlyValidRecords ==
    /\ Len(rows) = Len(sortedBalances)
    /\ \A i \in 1..Len(sortedBalances) :
        /\ \E j \in 1..Len(balances) : balances[j] = sortedBalances[i]
        /\ getPriority(sortedBalances[i].blockchain) > Sentinel
        /\ sortedBalances[i].amount > 0
        /\ RowOf(i)
    /\ (\A j \in 1..Len(balances) : ~Survives(balances[j])) => rows = <<>>

\* A render that kept one record and dropped one on an unknown chain and one with
\* a non-positive amount.
C1_Witness ==
    /\ Len(balances) = 3
    /\ Len(rows) = 1
    /\ \E j \in 1..Len(balances) : getPriority(balances[j].blockchain) = Sentinel
    /\ \E j \in 1..Len(balances) :
        getPriority(balances[j].blockchain) > Sentinel /\ balances[j].amount <= 0

Priorities == {getPriority(b.blockchain) : b \in WalletBalance}

\* C2: the rows are in descending order of getPriority(blockchain), and the
\* surviving records of one priority are in the order they have in the input.
C2_DescendingAndStable ==
    /\ \A i, j \in 1..Len(sortedBalances) :
        i < j => getPriority(sortedBalances[i].blockchain)
                     >= getPriority(sortedBalances[j].blockchain)
    /\ \A p \in Priorities :
        LET OutP(b) == getPriority(b.blockchain) = p
            InP(b) == getPriority(b.blockchain) = p /\ p > Sentinel /\ b.amount > 0
        IN  SelectSeq(sortedBalances, OutP) = SelectSeq(balances, InP)
    /\ Len(rows) = Len(sortedBalances)
    /\ \A i \in 1..Len(rows) : RowOf(i)

\* Zilliqa before Neo in the input, both of priority 20, and after them a record
\* of higher priority: the sort moves the last one up and keeps the tie's order.
C2_Witness ==
    /\ Len(balances) = 3
    /\ Len(sortedBalances) = 3
    /\ balances[1].blockchain = "Zilliqa"
    /\ balances[2].blockchain = "Neo"
    /\ getPriority(balances[3].blockchain) > 20
    /\ sortedBalances = <<balances[3], balances[1], balances[2]>>

\* C3: a surviving record whose currency has no price still has its row, and the
\* row's usdValue is an explicit unknown marker, not 0 and not NaN; the rows of
\* the priced currencies carry amount * price.
C3_MissingPriceIsUnknown ==
    /\ Len(rows) = Len(sortedBalances)
    /\ \A i \in 1..Len(rows) :
        IF prices[sortedBalances[i].currency] = Undefined
        THEN rows[i].usdValue \notin {NaN, Num(0)}
        ELSE rows[i].usdValue = Num(prices[sortedBalances[i].currency].num * rows[i].amount)

\* What a change of prices must leave alone: order, membership, formattedAmount.
Shape(rs) ==
    [i \in 1..Len(rs) |->
        [key |-> rs[i].key, amount |-> rs[i].amount,
         formattedAmount |-> rs[i].formattedAmount]]

\* C4: a step that leaves balances as it is (only prices may change) keeps the
\* order of the rows, the set of rows and every formattedAmount.
C4_PricesLeaveShape ==
    [][(balances' = balances /\ balancesRef' = balancesRef) => Shape(rows') = Shape(rows)]_vars

\* A render caused by a change of prices, with a priced and an unpriced row.
C4_Witness ==
    /\ renderCause = "prices"
    /\ \E i, j \in 1..Len(rows) : rows[i].usdValue = NaN /\ IsNum(rows[j].usdValue)

\* C5: the filter/sort callback runs only in a render whose balances array is not
\* the one of the render before; a render with the same balances array (caused by
\* prices alone) keeps both memoized arrays and runs neither callback.
C5_RecomputeOnlyOnBalances ==
    [][/\ ranSort' => balancesRef' # balancesRef
       /\ balancesRef' = balancesRef =>
            /\ ~ranSort' /\ ~ranFormat'
            /\ sortedBalances' = sortedBalances /\ sortedRef' = sortedRef
            /\ formattedBalances' = formattedBalances]_vars

\* A render caused by prices, over a non-empty list, that ran neither callback.
C5_Witness ==
    /\ renderCause = "prices"
    /\ ~ranSort /\ ~ranFormat
    /\ Len(sortedBalances) >= 2

\* C6: in one run of the filter/sort stage getPriority is called at most once per
\* input record, and never from the sort comparator.
C6_PriorityComputedOnce ==
    /\ sortCalls = 0
    /\ filterCalls + sortCalls <= Len(balances)

Count(seq, x) == Cardinality({i \in 1..Len(seq) : seq[i] = x})

\* C7: there is one row per valid input record: as many rows as valid records, and
\* a record held several times is kept as many times.
C7_OneRowPerValidRecord ==
    /\ Len(rows) = Cardinality({j \in 1..Len(balances) : Survives(balances[j])})
    /\ Len(sortedBalances) = Len(rows)
    /\ \A i \in 1..Len(rows) : RowOf(i)
    /\ \A j \in 1..Len(balances) :
        Survives(balances[j]) =>
            Count(sortedBalances, balances[j]) = Count(balances, balances[j])

\* The same valid balance twice in the input, and a row for each.
C7_Witness ==
    /\ \E i, j \in 1..Len(balances) :
        i < j /\ balances[i] = balances[j] /\ Survives(balances[i])
    /\ \E i, j \in 1..Len(rows) : i < j /\ rows[i] = rows[j]

(***************************************************************************)
(* CurrencySwapForm: properties                                            *)
(***************************************************************************)
\* The selected currency c has a price the form can use.
HasPrice(c) ==
    /\ c # ""
    /\ \E i \in 1..Len(tokens) :
        /\ tokens[i].currency = c
        /\ tokens[i].price # 0
        /\ \A j \in 1..(i - 1) : tokens[j].currency # c

FirstPrice(c) ==
    tokens[CHOOSE i \in 1..Len(tokens) :
               tokens[i].currency = c /\ \A j \in 1..(i - 1) : tokens[j].currency # c].price

\* C8: a non-null exchangeRate is the ratio (to six decimals) of the prices of the
\* currencies now selected, and exchangeRate is null whenever a selection is empty
\* or a selected currency has no price.
C8_RateOfCurrentSelection ==
    IF HasPrice(fromToken) /\ HasPrice(toToken)
    THEN exchangeRate # Null =>
            LET fromPrice == FirstPrice(fromToken)
                toPrice == FirstPrice(toToken)
            IN  /\ IsNum(exchangeRate)
                /\ 2 * toPrice * exchangeRate.num <= 2 * fromPrice * Million + toPrice
                /\ 2 * toPrice * exchangeRate.num > 2 * fromPrice * Million - toPrice
    ELSE exchangeRate = Null

\* handleSwap's inputs are not valid: a selection or the amount is empty, or the
\* amount is not a number, or it is zero or less.
BadInputs ==
    \/ fromToken = ""
    \/ toToken = ""
    \/ amount = <<>>
    \/ Number(amount) = NaN
    \/ (IsNum(Number(amount)) /\ Number(amount).num <= 0)

\* C9: handleSwap on invalid inputs sets error to "Please provide valid inputs."
\* and leaves loading, result, amount and exchangeRate as they are and starts no
\* timer.
C9_InvalidSwapOnlySetsError ==
    [][(ClickSwap /\ BadInputs) =>
            /\ error' = "Please provide valid inputs."
            /\ UNCHANGED <<loading, result, amount, exchangeRate, timers>>]_vars

\* The message is on screen after a click with both selections made and an amount
\* of zero or less, and nothing is pending.
C9_Witness ==
    /\ error = "Please provide valid inputs."
    /\ fromToken # "" /\ toToken # ""
    /\ IsNum(Number(amount)) /\ Number(amount).num <= 0 /\ amount # <<>>
    /\ ~loading /\ timers = <<>> /\ result = Null

\* The product the callback of the pending timer computes: the amount and the
\* rate of the click, a rate of null counting as 0.
ClickedProduct ==
    LET clicked == timers[1]
    IN  Number(clicked.amount).num
            * (IF clicked.exchangeRate = Null THEN 0 ELSE clicked.exchangeRate.num)

\* C10 as amended: while a swap is pending loading is true and exactly one timer
\* is pending, and none is pending otherwise; the timer's callback sets loading
\* to false, result to the clicked amount times the exchange rate of the click
\* (0 when that rate was null) and amount to empty; and every pending swap
\* completes.
C10_SwapCompletes ==
    /\ [](Len(timers) <= 1 /\ (loading <=> timers # <<>>))
    /\ [][(timers # <<>> /\ timers' # timers) =>
            /\ timers' = <<>>
            /\ loading' = FALSE
            /\ result' = Num(ClickedProduct)
            /\ amount' = <<>>]_vars
    /\ (loading ~> (~loading /\ timers = <<>>))

\* A swap clicked with a rate on screen has completed: its result is on screen
\* and the next swap is pending.
C10_Witness ==
    /\ loading
    /\ Len(timers) = 1
    /\ IsNum(result) /\ result.num > 0

\* C10 as stated: the timer's callback sets result to the clicked amount times the
\* exchange rate (the one of the click or the one now on screen).
C10_ResultIsAmountTimesRate ==
    [][(timers # <<>> /\ timers' # timers) =>
            \E rate \in {timers[1].exchangeRate, exchangeRate} :
                /\ IsNum(rate)
                /\ result' = Num(Number(timers[1].amount).num * rate.num)]_vars

====
